---- MODULE Spec2Model ----
(***************************************************************************)
(* Model of the HCS-10 agent registry of aetherflow-traffic:               *)
(*   backend/src/aetherflow/hcs10/agent_registry.py   (AgentRegistry)      *)
(*   backend/src/aetherflow/models/ai_agents.py       (AIAgent)            *)
(*   backend/src/aetherflow/hedera/client.py          (HederaClient)       *)
(*   backend/src/aetherflow/api/v1/endpoints/hcs10_communication.py        *)
(*                                                                         *)
(* The consensus service behind HederaClient is external: every            *)
(* create_topic / submit_message call either succeeds or returns None      *)
(* (the client turns exceptions and non-success receipts into None), which *)
(* is drawn here as a boolean input of the action that makes the call.     *)
(* A memo string is modelled as the sequence of its colon-separated        *)
(* fields; the free-text note "m" of an envelope is left out.              *)
(***************************************************************************)
EXTENDS Integers, Sequences, FiniteSets, TLC

\* ---- bounds of the model ------------------------------------------------
MaxConnTopics == 2
MaxSent == 2
MaxRegistryLog == 2
MaxConnId == 1
MaxConnChoice == 1
MaxRequests == 2
MaxInflightSent == 3
MaxRegisterCalls == 3

\* ---- program constants ----------------------------------------------------
None == 0
DefaultTtl == 60
RegistryTtl == 60
DefaultMaxConnections == 100

Accounts == {"0.0.100", "0.0.200"}
Uids == {"uid"}
MessageData == {"hello"}
ScheduleIds == {"0.0.777"}
MaxConnectionsInputs == 1..MaxConnChoice
ConnectionIds == 1..MaxConnId

VARIABLES
  agents,             \* the AIAgent records, keyed by account_id
  registry_topic_id,  \* AgentRegistry.registry_topic_id (None or a topic id)
  configured,         \* the registry_topic_id the AgentRegistry was built with
  topics,             \* the topic log service: topics[t] = [memo, msgs]
  now,                \* the clock read by datetime.utcnow()
  requests            \* the endpoint calls in flight: position and local objects

vars == <<agents, registry_topic_id, configured, topics, now, requests>>

\* ---- AIAgent ----------------------------------------------------------------
TopicStr(t) == IF t = None THEN "None" ELSE ToString(t)

NewAgent(account_id, max_connections, t) ==
  [ account_id         |-> account_id,
    status             |-> "inactive",
    registry_topic_id  |-> None,
    inbound_topic_id   |-> None,
    outbound_topic_id  |-> None,
    ttl                |-> DefaultTtl,
    max_connections    |-> IF max_connections # 0 THEN max_connections
                           ELSE DefaultMaxConnections,
    active_connections |-> 0,
    messages_sent      |-> 0,
    messages_received  |-> 0,
    registration_tx_id |-> None,
    last_activity      |-> t ]

\* A faulty variant of get_hcs10_register_payload with another protocol marker
\* (used to show that C26_EnvelopeOperations tells the two apart).
get_hcs10_register_payload_unmarked(agent) ==
  [p |-> "hcs", op |-> "register", account_id |-> agent.account_id]

get_hcs10_register_payload(agent) ==
  [p |-> "hcs-10", op |-> "register", account_id |-> agent.account_id]

\* A faulty variant of get_topic_memo that gives the outbound topic the code
\* of the inbound topic (used to show that C27_SubTypeCodeDistinguishes tells
\* the two apart).
get_topic_memo_same_code(agent, topic_type) ==
  CASE topic_type = "registry" ->
         <<"hcs-10", "0", ToString(agent.ttl), "3",
           IF agent.registry_topic_id = None THEN ""
           ELSE TopicStr(agent.registry_topic_id)>>
    [] topic_type = "inbound" ->
         <<"hcs-10", "0", ToString(agent.ttl), "0", agent.account_id>>
    [] topic_type = "outbound" ->
         <<"hcs-10", "0", ToString(agent.ttl), "0">>
    [] OTHER ->
         <<"hcs-10", "0", ToString(agent.ttl),
           IF topic_type = "connection" THEN "2" ELSE "0">>

get_topic_memo(agent, topic_type) ==
  CASE topic_type = "registry" ->
         <<"hcs-10", "0", ToString(agent.ttl), "3",
           IF agent.registry_topic_id = None THEN ""
           ELSE TopicStr(agent.registry_topic_id)>>
    [] topic_type = "inbound" ->
         <<"hcs-10", "0", ToString(agent.ttl), "0", agent.account_id>>
    [] topic_type = "outbound" ->
         <<"hcs-10", "0", ToString(agent.ttl), "1">>
    [] OTHER ->
         <<"hcs-10", "0", ToString(agent.ttl),
           IF topic_type = "connection" THEN "2" ELSE "0">>

update_activity(agent, t) == [agent EXCEPT !.last_activity = t]

increment_messages_sent(agent, t) ==
  update_activity([agent EXCEPT !.messages_sent = @ + 1], t)

\* A faulty variant of increment_messages_received that refreshes the activity
\* time without counting (used to show that C30_ActiveEqualsReceived tells the
\* two apart).
increment_messages_received_uncounted(agent, t) ==
  update_activity(agent, t)

increment_messages_received(agent, t) ==
  update_activity([agent EXCEPT !.messages_received = @ + 1], t)

\* ---- HederaClient -------------------------------------------------------------
\* The state threaded through a handler: [agents, topics, now, reg], and the
\* number of submit_message calls the handler has made so far (attempts).
Cur == [agents |-> agents, topics |-> topics, now |-> now,
        reg |-> registry_topic_id, attempts |-> 0]

\* A transaction id of the service; the program only tests it for None.
TxId == 1

\* What a call of the service can come to: a success receipt, a receipt with
\* another status, or an exception (timeout, service unreachable).
ServiceOutcomes == {"success", "rejected", "unavailable"}

\* What HederaClient.submit_message returns for each of them.
submit_message_result(outcome) ==
  CASE outcome = "success"     -> TxId
    [] outcome = "rejected"    -> None
    [] outcome = "unavailable" -> None

\* The boolean the handlers test: `if tx_id`.
Succeeds(outcome) == submit_message_result(outcome) # None

\* create_topic: a new topic id on success, None on failure.
create_topic(s, memo, ok) ==
  IF ok
  THEN [s |-> [s EXCEPT !.topics = Append(@, [memo |-> memo, msgs |-> <<>>])],
        id |-> Len(s.topics) + 1]
  ELSE [s |-> s, id |-> None]

\* submit_message: a transaction id on success, None on failure; a topic id
\* the service does not know makes the transaction fail.
submit_message(s, topic_id, message, ok) ==
  IF ok /\ topic_id \in 1..Len(s.topics)
  THEN [s |-> [s EXCEPT !.topics[topic_id].msgs = Append(@, message),
                        !.attempts = @ + 1],
        tx |-> TxId]
  ELSE [s |-> [s EXCEPT !.attempts = @ + 1], tx |-> None]

\* ---- AgentRegistry -----------------------------------------------------------
RegistryMemo == <<"hcs-10", "0", ToString(RegistryTtl), "3", "">>

ConnectionMemo(agent_a, connection_id) ==
  <<"hcs-10", "1", ToString(RegistryTtl), "2",
    TopicStr(agent_a.inbound_topic_id), ToString(connection_id)>>

OperatorId(agent) == <<agent.account_id, agent.inbound_topic_id>>

\* A faulty variant of initialize_registry without the early return: it asks
\* for a topic even when the registry already holds one (used to show that
\* C10_InitializeRegistryIdempotent tells the two apart).
initialize_registry_always_creates(s, ok) ==
  LET c == create_topic(s, RegistryMemo, ok)
  IN  [s |-> IF c.id # None THEN [c.s EXCEPT !.reg = c.id] ELSE c.s,
       topic |-> c.id]

initialize_registry(s, ok) ==
  IF s.reg # None
  THEN [s |-> s, topic |-> s.reg]
  ELSE LET c == create_topic(s, RegistryMemo, ok)
       IN  [s |-> IF c.id # None THEN [c.s EXCEPT !.reg = c.id] ELSE c.s,
            topic |-> c.id]

register_agent(s, a, okInit, okSubmit) ==
  LET s1 == IF s.reg = None THEN initialize_registry(s, okInit).s ELSE s
  IN  IF s1.reg = None
      THEN [s |-> s1, tx |-> None]
      ELSE LET r == submit_message(s1, s1.reg,
                      get_hcs10_register_payload(s1.agents[a]), okSubmit)
           IN  [s |-> IF r.tx # None
                      THEN [r.s EXCEPT !.agents[a].registration_tx_id = r.tx,
                                       !.agents[a].status = "active"]
                      ELSE r.s,
                tx |-> r.tx]

\* A faulty variant of delete_agent that marks the agent deleted whether or not
\* the delete envelope was appended (used to show that C19_DeleteAgent tells
\* the two apart).
delete_agent_always_deleted(s, a, uid, ok) ==
  IF s.reg = None
  THEN [s |-> [s EXCEPT !.agents[a].status = "deleted"], tx |-> None]
  ELSE LET r == submit_message(s, s.reg,
                  [p |-> "hcs-10", op |-> "delete", uid |-> uid], ok)
       IN  [s |-> [r.s EXCEPT !.agents[a].status = "deleted"],
            tx |-> r.tx]

delete_agent(s, a, uid, ok) ==
  IF s.reg = None
  THEN [s |-> s, tx |-> None]
  ELSE LET r == submit_message(s, s.reg,
                  [p |-> "hcs-10", op |-> "delete", uid |-> uid], ok)
       IN  [s |-> IF r.tx # None
                  THEN [r.s EXCEPT !.agents[a].status = "deleted"]
                  ELSE r.s,
            tx |-> r.tx]

create_agent_topics(s, a, okIn, okOut) ==
  LET i  == create_topic(s, get_topic_memo(s.agents[a], "inbound"), okIn)
      s1 == IF i.id # None
            THEN [i.s EXCEPT !.agents[a].inbound_topic_id = i.id]
            ELSE i.s
      o  == create_topic(s1, get_topic_memo(s1.agents[a], "outbound"), okOut)
      s2 == IF o.id # None
            THEN [o.s EXCEPT !.agents[a].outbound_topic_id = o.id]
            ELSE o.s
  IN  [s |-> s2, inbound |-> i.id, outbound |-> o.id]

\* A faulty variant of send_connection_request that also counts a connection
\* for the requester (used to show that C24_ConnectionRequestFrame tells the
\* two apart).
send_connection_request_counting_connection(s, a, to_agent_inbound_topic, ok) ==
  IF s.agents[a].outbound_topic_id = None
  THEN [s |-> s, tx |-> None]
  ELSE LET r == submit_message(s, to_agent_inbound_topic,
                  [p |-> "hcs-10", op |-> "connection_request",
                   operator_id |-> OperatorId(s.agents[a])], ok)
       IN  [s |-> IF r.tx # None
                  THEN [r.s EXCEPT
                          !.agents[a] =
                             [increment_messages_sent(@, r.s.now + 1)
                                EXCEPT !.active_connections = @ + 1],
                          !.now = @ + 1]
                  ELSE r.s,
            tx |-> r.tx]

send_connection_request(s, a, to_agent_inbound_topic, ok) ==
  IF s.agents[a].outbound_topic_id = None
  THEN [s |-> s, tx |-> None]
  ELSE LET r == submit_message(s, to_agent_inbound_topic,
                  [p |-> "hcs-10", op |-> "connection_request",
                   operator_id |-> OperatorId(s.agents[a])], ok)
       IN  [s |-> IF r.tx # None
                  THEN [r.s EXCEPT
                          !.agents[a] = increment_messages_sent(@, r.s.now + 1),
                          !.now = @ + 1]
                  ELSE r.s,
            tx |-> r.tx]

\* A faulty variant of _notify_connection_created that counts the notification
\* whether or not the append succeeded (used to show that
\* C18_FailedNotificationFrame tells the two apart).
notify_connection_created_counting_failures(s, to, from, connection_topic_id, connection_id, ok) ==
  LET r == submit_message(s, s.agents[to].inbound_topic_id,
             [p |-> "hcs-10", op |-> "connection_created",
              connection_topic_id |-> connection_topic_id,
              connected_account_id |-> s.agents[from].account_id,
              operator_id |-> OperatorId(s.agents[from]),
              connection_id |-> connection_id], ok)
  IN  [s |-> [r.s EXCEPT
                !.agents[to] =
                   [increment_messages_received(@, r.s.now + 1)
                      EXCEPT !.active_connections = @ + 1],
                !.now = @ + 1],
       tx |-> r.tx]

\* A faulty variant of _notify_connection_created that counts the received
\* message but not the connection (used to show that C3_FullHandshake tells
\* the two apart).
notify_connection_created_uncounted(s, to, from, connection_topic_id, connection_id, ok) ==
  LET r == submit_message(s, s.agents[to].inbound_topic_id,
             [p |-> "hcs-10", op |-> "connection_created",
              connection_topic_id |-> connection_topic_id,
              connected_account_id |-> s.agents[from].account_id,
              operator_id |-> OperatorId(s.agents[from]),
              connection_id |-> connection_id], ok)
  IN  [s |-> IF r.tx # None
             THEN [r.s EXCEPT
                     !.agents[to] = increment_messages_received(@, r.s.now + 1),
                     !.now = @ + 1]
             ELSE r.s,
       tx |-> r.tx]

notify_connection_created(s, to, from, connection_topic_id, connection_id, ok) ==
  LET r == submit_message(s, s.agents[to].inbound_topic_id,
             [p |-> "hcs-10", op |-> "connection_created",
              connection_topic_id |-> connection_topic_id,
              connected_account_id |-> s.agents[from].account_id,
              operator_id |-> OperatorId(s.agents[from]),
              connection_id |-> connection_id], ok)
  IN  [s |-> IF r.tx # None
             THEN [r.s EXCEPT
                     !.agents[to] =
                        [increment_messages_received(@, r.s.now + 1)
                           EXCEPT !.active_connections = @ + 1],
                     !.now = @ + 1]
             ELSE r.s,
       tx |-> r.tx]

\* A faulty variant of create_connection_topic that notifies the first agent
\* only (used to show that C25_TwoNotifications tells the two apart).
create_connection_topic_single_notification(s, a, b, connection_id, ok, okA, okB) ==
  LET c == create_topic(s, ConnectionMemo(s.agents[a], connection_id), ok)
  IN  IF c.id # None
      THEN LET n1 == notify_connection_created(c.s, a, b, c.id, connection_id, okA)
           IN  [s |-> n1.s, topic |-> c.id, notified |-> <<n1.tx, None>>]
      ELSE [s |-> c.s, topic |-> None, notified |-> <<None, None>>]

create_connection_topic(s, a, b, connection_id, ok, okA, okB) ==
  LET c == create_topic(s, ConnectionMemo(s.agents[a], connection_id), ok)
  IN  IF c.id # None
      THEN LET n1 == notify_connection_created(c.s, a, b, c.id, connection_id, okA)
               n2 == notify_connection_created(n1.s, b, a, c.id, connection_id, okB)
           IN  [s |-> n2.s, topic |-> c.id, notified |-> <<n1.tx, n2.tx>>]
      ELSE [s |-> c.s, topic |-> None, notified |-> <<None, None>>]

\* A faulty variant of send_message that counts the message whether or not the
\* append succeeded (used to show that C4_SendMessageCounters tells the two
\* apart).
send_message_counting_failures(s, a, connection_topic_id, message_data, ok) ==
  LET r == submit_message(s, connection_topic_id,
             [p |-> "hcs-10", op |-> "message",
              operator_id |-> OperatorId(s.agents[a]),
              data |-> message_data], ok)
  IN  [s |-> [r.s EXCEPT
                !.agents[a] = increment_messages_sent(@, r.s.now + 1),
                !.now = @ + 1],
       tx |-> r.tx]

send_message(s, a, connection_topic_id, message_data, ok) ==
  LET r == submit_message(s, connection_topic_id,
             [p |-> "hcs-10", op |-> "message",
              operator_id |-> OperatorId(s.agents[a]),
              data |-> message_data], ok)
  IN  [s |-> IF r.tx # None
             THEN [r.s EXCEPT
                     !.agents[a] = increment_messages_sent(@, r.s.now + 1),
                     !.now = @ + 1]
             ELSE r.s,
       tx |-> r.tx]

\* A faulty variant of send_transaction_request that submits a second time
\* when the first submit failed (used to show that C20_NoSilentRetry tells the
\* two apart).
send_transaction_request_retrying(s, a, connection_topic_id, schedule_id, transaction_data, ok) ==
  LET env == [p |-> "hcs-10", op |-> "transaction",
              operator_id |-> OperatorId(s.agents[a]),
              schedule_id |-> schedule_id,
              data |-> transaction_data]
      r1 == submit_message(s, connection_topic_id, env, ok)
      r  == IF r1.tx # None THEN r1
            ELSE submit_message(r1.s, connection_topic_id, env, TRUE)
  IN  [s |-> IF r.tx # None
             THEN [r.s EXCEPT
                     !.agents[a] = increment_messages_sent(@, r.s.now + 1),
                     !.now = @ + 1]
             ELSE r.s,
       tx |-> r.tx]

send_transaction_request(s, a, connection_topic_id, schedule_id, transaction_data, ok) ==
  LET r == submit_message(s, connection_topic_id,
             [p |-> "hcs-10", op |-> "transaction",
              operator_id |-> OperatorId(s.agents[a]),
              schedule_id |-> schedule_id,
              data |-> transaction_data], ok)
  IN  [s |-> IF r.tx # None
             THEN [r.s EXCEPT
                     !.agents[a] = increment_messages_sent(@, r.s.now + 1),
                     !.now = @ + 1]
             ELSE r.s,
       tx |-> r.tx]

\* ---- endpoints (api/v1/endpoints/hcs10_communication.py) ----------------------
\* POST /agents/register
post_register_agent(s, acct, max_connections, okIn, okOut, okInit, okSubmit) ==
  IF acct \in DOMAIN s.agents
  THEN [s |-> s, ret |-> [http |-> 409]]
  ELSE LET s0 == [s EXCEPT
                    !.agents = @ @@ (acct :> NewAgent(acct, max_connections, s.now + 1)),
                    !.now = @ + 1]
           t  == create_agent_topics(s0, acct, okIn, okOut)
           r  == register_agent(t.s, acct, okInit, okSubmit)
       IN  \* the session is committed after the insert, and again only when
           \* the registration returned a transaction id
           [s   |-> [r.s EXCEPT !.agents = IF r.tx # None THEN r.s.agents
                                           ELSE s0.agents],
            ret |-> [http |-> 200,
                     registration_tx_id |-> r.tx,
                     inbound_topic_id |-> r.s.agents[acct].inbound_topic_id,
                     outbound_topic_id |-> r.s.agents[acct].outbound_topic_id]]

\* POST /connections/request
post_request_connection(s, from, to_agent_inbound_topic, ok) ==
  IF from \notin DOMAIN s.agents
  THEN [s |-> s, ret |-> [http |-> 404]]
  ELSE LET r == send_connection_request(s, from, to_agent_inbound_topic, ok)
       IN  [s |-> r.s, ret |-> [http |-> 200, tx_id |-> r.tx]]

\* POST /messages/send
post_send_message(s, from, connection_topic_id, message_data, ok) ==
  IF from \notin DOMAIN s.agents
  THEN [s |-> s, ret |-> [http |-> 404]]
  ELSE LET r == send_message(s, from, connection_topic_id, message_data, ok)
       IN  [s |-> r.s, ret |-> [http |-> 200, tx_id |-> r.tx]]

\* POST /transactions/request
post_request_transaction(s, from, connection_topic_id, schedule_id, data, ok) ==
  IF from \notin DOMAIN s.agents
  THEN [s |-> s, ret |-> [http |-> 404]]
  ELSE LET r == send_transaction_request(s, from, connection_topic_id,
                                         schedule_id, data, ok)
       IN  [s |-> IF r.tx # None
                  THEN [r.s EXCEPT
                          !.agents[from] = increment_messages_sent(@, r.s.now + 1),
                          !.now = @ + 1]
                  ELSE r.s,
            ret |-> [http |-> 200, tx_id |-> r.tx]]

\* ---- state machine ---------------------------------------------------------
Registered == DOMAIN agents

\* Topic ids a caller passes: an id no topic has (None stands for it), the
\* inbound topic of a registered agent, a connection topic.
InboundTopics == {agents[a].inbound_topic_id : a \in Registered} \ {None}

IsConnectionTopic(topic) == topic.memo[2] = "1"

ConnectionTopics == {t \in 1..Len(topics) : IsConnectionTopic(topics[t])}

RequestTargets == {None} \cup InboundTopics

MessageTargets == {None} \cup ConnectionTopics

RECURSIVE SumSent(_)
SumSent(S) == IF S = {} THEN 0
              ELSE LET a == CHOOSE x \in S : TRUE
                   IN  agents[a].messages_sent + SumSent(S \ {a})

TotalSent == SumSent(Registered)

RegistryLog == IF registry_topic_id = None THEN <<>>
               ELSE topics[registry_topic_id].msgs

\* Endpoint calls run as coroutines of one event loop, each with its own
\* database session (core/database.py get_async_session): a call that has
\* loaded its objects and waits at an await holds them in requests[slot].
Slots == 1..MaxRequests

Idle == [pc |-> "idle"]

\* The registry is built in main.py from settings.HCS_REGISTRY_TOPIC_ID, which
\* is either unset or the id of a registry topic that already exists.
Init ==
  /\ configured \in {None, 1}
  /\ registry_topic_id = configured
  /\ topics = IF configured = None THEN <<>>
              ELSE <<[memo |-> RegistryMemo, msgs |-> <<>>]>>
  /\ agents = [x \in {} |-> None]
  /\ now = 0
  /\ requests = [slot \in Slots |-> Idle]

Store(s) ==
  /\ agents' = s.agents
  /\ topics' = s.topics
  /\ now' = s.now
  /\ registry_topic_id' = s.reg
  /\ UNCHANGED <<configured, requests>>

\* The outcomes of a service call: when the handler cannot reach the call the
\* outcome plays no part, and one value is drawn.
Outcomes(reached) == IF reached THEN BOOLEAN ELSE {FALSE}

PostRegisterAgent(acct, max_connections) ==
  \E okIn \in Outcomes(acct \notin Registered),
     okOut \in Outcomes(acct \notin Registered),
     okInit \in Outcomes(acct \notin Registered /\ registry_topic_id = None),
     okSubmit \in Outcomes(acct \notin Registered) :
    Store(post_register_agent(Cur, acct, max_connections,
                              okIn, okOut, okInit, okSubmit).s)

InitializeRegistry ==
  \E ok \in Outcomes(registry_topic_id = None) :
    Store(initialize_registry(Cur, ok).s)

RegisterAgent(a) ==
  /\ a \in Registered
  /\ Len(RegistryLog) < MaxRegistryLog
  /\ \E okInit \in Outcomes(registry_topic_id = None), okSubmit \in BOOLEAN :
       Store(register_agent(Cur, a, okInit, okSubmit).s)

DeleteAgent(a, uid) ==
  /\ a \in Registered
  /\ Len(RegistryLog) < MaxRegistryLog
  /\ \E ok \in Outcomes(registry_topic_id # None) :
       Store(delete_agent(Cur, a, uid, ok).s)

PostRequestConnection(from, to_topic) ==
  /\ TotalSent < MaxSent
  /\ \E ok \in Outcomes(from \in Registered) :
       Store(post_request_connection(Cur, from, to_topic, ok).s)

\* A connection is created for two different agents that both hold an inbound
\* topic (the request that leads to it arrived on one).
CreateConnectionTopic(a, b, connection_id) ==
  /\ a \in Registered
  /\ b \in Registered
  /\ a # b
  /\ agents[a].inbound_topic_id # None
  /\ agents[b].inbound_topic_id # None
  /\ Cardinality(ConnectionTopics) < MaxConnTopics
  /\ \E ok \in BOOLEAN :
       \E okA \in Outcomes(ok), okB \in Outcomes(ok) :
         Store(create_connection_topic(Cur, a, b, connection_id, ok, okA, okB).s)

PostSendMessage(from, topic, data) ==
  /\ TotalSent < MaxSent
  /\ \E ok \in Outcomes(from \in Registered) :
       Store(post_send_message(Cur, from, topic, data, ok).s)

PostRequestTransaction(from, topic, schedule_id, data) ==
  /\ TotalSent + 1 < MaxSent
  /\ \E ok \in Outcomes(from \in Registered) :
       Store(post_request_transaction(Cur, from, topic, schedule_id, data, ok).s)

Next ==
  \/ \E acct \in Accounts, m \in MaxConnectionsInputs : PostRegisterAgent(acct, m)
  \/ InitializeRegistry
  \/ \E a \in Accounts : RegisterAgent(a)
  \/ \E a \in Accounts, uid \in Uids : DeleteAgent(a, uid)
  \/ \E a \in Accounts, t \in RequestTargets : PostRequestConnection(a, t)
  \/ \E a \in Accounts, b \in Accounts, c \in ConnectionIds :
       CreateConnectionTopic(a, b, c)
  \/ \E a \in Accounts, t \in MessageTargets, d \in MessageData :
       PostSendMessage(a, t, d)
  \/ \E a \in Accounts, t \in MessageTargets, sch \in ScheduleIds, d \in MessageData :
       PostRequestTransaction(a, t, sch, d)

Spec == Init /\ [][Next]_vars

\* ---- endpoint calls that interleave at their awaits ---------------------------
\* The kinds of send an endpoint call in flight can be.
SendKinds == {"message", "connection_request"}

IsSentBy(env, a) == env.op \in SendKinds /\ env.operator_id[1] = a

RECURSIVE CountSent(_, _, _)
CountSent(tl, n, a) ==
  IF n = 0 THEN 0
  ELSE Cardinality({i \in 1..Len(tl[n].msgs) : IsSentBy(tl[n].msgs[i], a)})
         + CountSent(tl, n - 1, a)

\* The envelopes account a has appended through a send endpoint.
SentEnvelopes(a) == CountSent(topics, Len(topics), a)

RECURSIVE SumSentEnvelopes(_)
SumSentEnvelopes(S) ==
  IF S = {} THEN 0
  ELSE LET a == CHOOSE x \in S : TRUE
       IN  SentEnvelopes(a) + SumSentEnvelopes(S \ {a})

InFlightSends == Cardinality({slot \in Slots : requests[slot].pc = "loaded"})

\* db.commit(): the session writes the attributes the call changed on its own
\* object since it loaded it, and no other attribute of the stored record.
db_commit(stored, loaded, object) ==
  [f \in DOMAIN stored |-> IF object[f] # loaded[f] THEN object[f] ELSE stored[f]]

\* A send endpoint up to its first await: the select of the sending agent.
BeginSend(slot, kind, from, topic) ==
  /\ requests[slot].pc = "idle"
  /\ InFlightSends + SumSentEnvelopes(Registered) < MaxInflightSent
  /\ requests' = [requests EXCEPT ![slot] =
        IF from \in Registered
        THEN [pc |-> "loaded", kind |-> kind, from |-> from, topic |-> topic,
              from_agent |-> agents[from]]
        ELSE Idle]
  /\ UNCHANGED <<agents, registry_topic_id, configured, topics, now>>

\* The rest of the send endpoint: the registry call on the loaded object, then
\* the commit of that object.
FinishSend(slot) ==
  /\ requests[slot].pc = "loaded"
  /\ \E ok \in BOOLEAN, d \in MessageData :
       LET q  == requests[slot]
           s0 == [Cur EXCEPT !.agents[q.from] = q.from_agent]
           r  == IF q.kind = "message"
                 THEN post_send_message(s0, q.from, q.topic, d, ok)
                 ELSE post_request_connection(s0, q.from, q.topic, ok)
       IN  /\ agents' = [agents EXCEPT ![q.from] =
                           db_commit(@, q.from_agent, r.s.agents[q.from])]
           /\ topics' = r.s.topics
           /\ now' = r.s.now
           /\ requests' = [requests EXCEPT ![slot] = Idle]
           /\ UNCHANGED <<registry_topic_id, configured>>

\* The register endpoint up to the await after its existence check.
BeginRegister(slot, acct, max_connections) ==
  /\ requests[slot].pc \in {"idle", "done"}
  /\ requests' = [requests EXCEPT ![slot] =
        IF acct \in Registered
        THEN [pc |-> "done", kind |-> "register", acct |-> acct,
              checked |-> FALSE, ret |-> [http |-> 409]]
        ELSE [pc |-> "checked", kind |-> "register", acct |-> acct,
              max_connections |-> max_connections]]
  /\ UNCHANGED <<agents, registry_topic_id, configured, topics, now>>

\* The rest of the register endpoint: the insert, which the unique account_id
\* column refuses when the record exists by now (the IntegrityError becomes
\* HTTP 500), then the topics and the registration.
FinishRegister(slot) ==
  /\ requests[slot].pc = "checked"
  /\ LET q == requests[slot]
     IN  IF q.acct \in Registered
         THEN /\ requests' = [requests EXCEPT ![slot] =
                    [pc |-> "done", kind |-> "register", acct |-> q.acct,
                     checked |-> TRUE, ret |-> [http |-> 500]]]
              /\ UNCHANGED <<agents, registry_topic_id, configured, topics, now>>
         ELSE \E okIn \in BOOLEAN, okOut \in BOOLEAN,
                 okInit \in Outcomes(registry_topic_id = None),
                 okSubmit \in BOOLEAN :
                LET r == post_register_agent(Cur, q.acct, q.max_connections,
                                             okIn, okOut, okInit, okSubmit)
                IN  /\ agents' = r.s.agents
                    /\ topics' = r.s.topics
                    /\ now' = r.s.now
                    /\ registry_topic_id' = r.s.reg
                    /\ requests' = [requests EXCEPT ![slot] =
                          [pc |-> "done", kind |-> "register", acct |-> q.acct,
                           checked |-> TRUE, ret |-> r.ret]]
                    /\ UNCHANGED configured

\* Registration calls that interleave, from the start of the program.
NextRegisterRace ==
  \/ \E slot \in Slots, acct \in Accounts, m \in MaxConnectionsInputs :
       BeginRegister(slot, acct, m)
  \/ \E slot \in Slots : FinishRegister(slot)

SpecRegisterRace == Init /\ [][NextRegisterRace]_vars

\* Send calls that interleave, from the state the program is in after two
\* registrations and one connection creation in which every service call
\* succeeded.
AfterHandshake ==
  LET s0 == [agents |-> [x \in {} |-> None],
             topics |-> <<[memo |-> RegistryMemo, msgs |-> <<>>]>>,
             now |-> 0, reg |-> 1, attempts |-> 0]
      s1 == post_register_agent(s0, "0.0.100", 1, TRUE, TRUE, TRUE, TRUE).s
      s2 == post_register_agent(s1, "0.0.200", 1, TRUE, TRUE, TRUE, TRUE).s
  IN  create_connection_topic(s2, "0.0.100", "0.0.200", 1, TRUE, TRUE, TRUE).s

InitSendRace ==
  /\ configured = 1
  /\ registry_topic_id = AfterHandshake.reg
  /\ topics = AfterHandshake.topics
  /\ agents = AfterHandshake.agents
  /\ now = AfterHandshake.now
  /\ requests = [slot \in Slots |-> Idle]

NextSendRace ==
  \/ \E slot \in Slots, a \in Accounts :
       \/ \E t \in MessageTargets : BeginSend(slot, "message", a, t)
       \/ \E t \in RequestTargets : BeginSend(slot, "connection_request", a, t)
  \/ \E slot \in Slots : FinishSend(slot)

SpecSendRace == InitSendRace /\ [][NextSendRace]_vars

\* Registry calls that interleave while the registry topic is unset. The
\* records are those of two agents whose registration found no registry
\* topic: every topic creation of theirs succeeded but the registry's.
BeforeRegistry ==
  LET s0 == [agents |-> [x \in {} |-> None], topics |-> <<>>,
             now |-> 0, reg |-> None, attempts |-> 0]
      s1 == post_register_agent(s0, "0.0.100", 1, TRUE, TRUE, FALSE, FALSE).s
  IN  post_register_agent(s1, "0.0.200", 1, TRUE, TRUE, FALSE, FALSE).s

InitRegistryRace ==
  /\ configured = None
  /\ registry_topic_id = BeforeRegistry.reg
  /\ topics = BeforeRegistry.topics
  /\ agents = BeforeRegistry.agents
  /\ now = BeforeRegistry.now
  /\ requests = [slot \in Slots |-> Idle]

RegisterEnvelopeCount ==
  Cardinality({x \in (1..Len(topics)) \X (1..MaxRegisterCalls) :
                 /\ x[2] <= Len(topics[x[1]].msgs)
                 /\ topics[x[1]].msgs[x[2]].op = "register"})

InFlightRegistryCalls == Cardinality({slot \in Slots : requests[slot].pc # "idle"})

\* initialize_registry up to its await: the early return when the registry
\* topic is set, else the call of create_topic.
BeginInitialize(slot) ==
  /\ requests[slot].pc = "idle"
  /\ requests' = [requests EXCEPT ![slot] =
        IF registry_topic_id # None THEN Idle
        ELSE [pc |-> "creating", kind |-> "initialize"]]
  /\ UNCHANGED <<agents, registry_topic_id, configured, topics, now>>

\* register_agent up to its first await: create_topic inside
\* initialize_registry when the registry topic is unset, else submit_message
\* on the registry topic read at the call.
BeginRegisterAgent(slot, a) ==
  /\ requests[slot].pc = "idle"
  /\ a \in Registered
  /\ InFlightRegistryCalls + RegisterEnvelopeCount < MaxRegisterCalls
  /\ requests' = [requests EXCEPT ![slot] =
        IF registry_topic_id = None
        THEN [pc |-> "creating", kind |-> "register", a |-> a]
        ELSE [pc |-> "submitting", kind |-> "register", a |-> a,
              topic |-> registry_topic_id]]
  /\ UNCHANGED <<agents, registry_topic_id, configured, topics, now>>

\* create_topic returns: initialize_registry stores the new id whatever the
\* registry holds by now; register_agent goes on to submit_message on the
\* registry topic it reads then, or returns None when there is none.
FinishCreate(slot) ==
  /\ requests[slot].pc = "creating"
  /\ \E ok \in BOOLEAN :
       LET q  == requests[slot]
           c  == initialize_registry([Cur EXCEPT !.reg = None], ok)
           rt == IF c.topic # None THEN c.topic ELSE registry_topic_id
       IN  /\ topics' = c.s.topics
           /\ registry_topic_id' = rt
           /\ requests' = [requests EXCEPT ![slot] =
                 IF q.kind = "register" /\ rt # None
                 THEN [pc |-> "submitting", kind |-> "register", a |-> q.a,
                       topic |-> rt]
                 ELSE Idle]
           /\ UNCHANGED <<agents, configured, now>>

\* submit_message returns: the register envelope is on the topic the call
\* named, and register_agent marks the agent on success.
FinishSubmit(slot) ==
  /\ requests[slot].pc = "submitting"
  /\ \E ok \in BOOLEAN :
       LET q == requests[slot]
           r == register_agent([Cur EXCEPT !.reg = q.topic], q.a, FALSE, ok)
       IN  /\ topics' = r.s.topics
           /\ agents' = r.s.agents
           /\ now' = r.s.now
           /\ requests' = [requests EXCEPT ![slot] = Idle]
           /\ UNCHANGED <<registry_topic_id, configured>>

NextRegistryRace ==
  \/ \E slot \in Slots : BeginInitialize(slot)
  \/ \E slot \in Slots, a \in Accounts : BeginRegisterAgent(slot, a)
  \/ \E slot \in Slots : FinishCreate(slot)
  \/ \E slot \in Slots : FinishSubmit(slot)

SpecRegistryRace == InitRegistryRace /\ [][NextRegistryRace]_vars

\* ---- helpers of the properties ------------------------------------------------
SuccessfullyRegistered(a) ==
  /\ a \in Registered
  /\ agents[a].registration_tx_id # None

Envelopes(t) == IF t \in 1..Len(topics) THEN topics[t].msgs ELSE <<>>

RegisterEnvelopes(tl, reg, acct) ==
  IF reg = None THEN {}
  ELSE {i \in 1..Len(tl[reg].msgs) :
          /\ tl[reg].msgs[i].op = "register"
          /\ tl[reg].msgs[i].account_id = acct}

RegistryTopics(tl) == {t \in 1..Len(tl) : tl[t].memo = RegistryMemo}

AnyTopic == {None} \cup (1..Len(topics))

\* ---- C1 ------------------------------------------------------------------------
\* C1: registration is idempotent by accountId. In every state, a registration
\* call for an account whose first registration succeeded (both topics created,
\* registration transaction recorded) answers with success and the inbound and
\* outbound topic ids of the first call, creates no topic and leaves exactly
\* one record for the account.
C1_RegistrationIdempotent ==
  \A acct \in Accounts, m \in MaxConnectionsInputs :
    ( /\ SuccessfullyRegistered(acct)
      /\ agents[acct].inbound_topic_id # None
      /\ agents[acct].outbound_topic_id # None )
    => LET r == post_register_agent(Cur, acct, m, TRUE, TRUE, TRUE, TRUE)
       IN  /\ DOMAIN r.s.agents = Registered
           /\ Len(r.s.topics) = Len(topics)
           /\ r.ret.http = 200
           /\ r.ret.inbound_topic_id = agents[acct].inbound_topic_id
           /\ r.ret.outbound_topic_id = agents[acct].outbound_topic_id

\* ---- C2 ------------------------------------------------------------------------
\* C2: in every reachable state every agent has
\* active_connections <= max_connections.
C2_ActiveWithinMax ==
  \A a \in Registered :
    agents[a].active_connections <= agents[a].max_connections

\* ---- C3 ------------------------------------------------------------------------
\* C3: a full handshake between two registered agents A and B -- A's connection
\* request appended to B's inbound topic, then one connection creation whose
\* two connection_created notifications both succeed -- increases
\* active_connections of A by exactly 1 and of B by exactly 1, and the two
\* connection_created envelopes carry the same connection_id and the same
\* connection_topic_id (the id of the topic that was created).
LastEnvelope(s, a) ==
  LET log == s.topics[s.agents[a].inbound_topic_id].msgs IN log[Len(log)]

C3_FullHandshake ==
  \A a \in Registered, b \in Registered, c \in ConnectionIds,
     ok \in BOOLEAN, okA \in BOOLEAN, okB \in BOOLEAN :
    a # b =>
      LET q == post_request_connection(Cur, a, agents[b].inbound_topic_id, TRUE)
          h == create_connection_topic(q.s, a, b, c, ok, okA, okB)
      IN  ( /\ q.ret.tx_id # None
            /\ h.topic # None
            /\ h.notified[1] # None
            /\ h.notified[2] # None )
          => /\ h.s.agents[a].active_connections = agents[a].active_connections + 1
             /\ h.s.agents[b].active_connections = agents[b].active_connections + 1
             /\ LastEnvelope(h.s, a).op = "connection_created"
             /\ LastEnvelope(h.s, b).op = "connection_created"
             /\ LastEnvelope(h.s, a).connection_id = LastEnvelope(h.s, b).connection_id
             /\ LastEnvelope(h.s, a).connection_topic_id
                  = LastEnvelope(h.s, b).connection_topic_id
             /\ LastEnvelope(h.s, a).connection_id = c
             /\ LastEnvelope(h.s, a).connection_topic_id = h.topic
             /\ LastEnvelope(h.s, a).connected_account_id = b
             /\ LastEnvelope(h.s, b).connected_account_id = a

\* A state after a full handshake: B's inbound topic holds A's request, both
\* inbound topics hold a connection_created envelope of the same connection,
\* and each agent counts one connection.
C3_Witness ==
  \E a \in Registered, b \in Registered :
    /\ a # b
    /\ agents[a].active_connections = 1
    /\ agents[b].active_connections = 1
    /\ \E i \in 1..Len(Envelopes(agents[b].inbound_topic_id)) :
         LET e == Envelopes(agents[b].inbound_topic_id)[i]
         IN  e.op = "connection_request" /\ e.operator_id[1] = a
    /\ \E i \in 1..Len(Envelopes(agents[a].inbound_topic_id)),
          j \in 1..Len(Envelopes(agents[b].inbound_topic_id)) :
         LET ea == Envelopes(agents[a].inbound_topic_id)[i]
             eb == Envelopes(agents[b].inbound_topic_id)[j]
         IN  /\ ea.op = "connection_created"
             /\ eb.op = "connection_created"
             /\ ea.connection_id = eb.connection_id
             /\ ea.connection_topic_id = eb.connection_topic_id
             /\ ea.connection_topic_id \in ConnectionTopics

\* ---- C4 ------------------------------------------------------------------------
\* C4: send_message changes the sender's counters only on success. When the
\* append to the topic succeeds, messages_sent of the sender increases by
\* exactly 1 and last_activity is refreshed to the time of the call; when the
\* append fails (no transaction id), messages_sent and last_activity are
\* unchanged. The append fails exactly when the service refuses it or does not
\* know the topic.
C4_SendMessageCounters ==
  \A a \in Registered, t \in AnyTopic, d \in MessageData, ok \in BOOLEAN :
    LET r == send_message(Cur, a, t, d, ok)
        e == post_send_message(Cur, a, t, d, ok)
    IN  /\ (r.tx # None) <=> (ok /\ t \in 1..Len(topics))
        /\ r.tx # None =>
             /\ r.s.agents[a].messages_sent = agents[a].messages_sent + 1
             /\ r.s.agents[a].last_activity = r.s.now
             /\ r.s.agents[a].last_activity > agents[a].last_activity
             /\ Len(r.s.topics[t].msgs) = Len(topics[t].msgs) + 1
        /\ r.tx = None =>
             /\ r.s.agents[a].messages_sent = agents[a].messages_sent
             /\ r.s.agents[a].last_activity = agents[a].last_activity
             /\ r.s.topics = topics
        /\ \A x \in Registered \ {a} : r.s.agents[x] = agents[x]
        /\ e.s = r.s
        /\ e.ret.tx_id = r.tx

\* A state right after a successful send_message: the last envelope of a
\* connection topic is the sender's message, counted and time-stamped.
C4_Witness ==
  \E a \in Registered, t \in ConnectionTopics :
    /\ Len(topics[t].msgs) > 0
    /\ topics[t].msgs[Len(topics[t].msgs)].op = "message"
    /\ topics[t].msgs[Len(topics[t].msgs)].operator_id[1] = a
    /\ agents[a].messages_sent >= 1
    /\ agents[a].last_activity = now

\* ---- C5 ------------------------------------------------------------------------
\* C5: a connection_created notification addressed to an agent that already has
\* active_connections = max_connections fails: no transaction id is returned,
\* the agent's active_connections and messages_received are not incremented,
\* and the connection topics that exist, and the topic ids the records hold,
\* stay as they were.
C5_CapacityExceeded ==
  \A to \in Registered, from \in Registered, ct \in ConnectionTopics,
     c \in ConnectionIds, ok \in BOOLEAN :
    (to # from /\ agents[to].active_connections = agents[to].max_connections) =>
      LET r == notify_connection_created(Cur, to, from, ct, c, ok)
      IN  /\ r.tx = None
          /\ r.s.agents[to].active_connections = agents[to].active_connections
          /\ r.s.agents[to].messages_received = agents[to].messages_received
          /\ \A t \in ConnectionTopics : r.s.topics[t] = topics[t]
          /\ \A x \in Registered :
               /\ r.s.agents[x].inbound_topic_id = agents[x].inbound_topic_id
               /\ r.s.agents[x].outbound_topic_id = agents[x].outbound_topic_id

\* ---- C7 ------------------------------------------------------------------------
\* C7: in every reachable state an agent whose status is active has an inbound
\* topic, an outbound topic and a Register envelope of its account on the
\* registry topic.
C7_ActiveHasTopicsAndBroadcast ==
  \A a \in Registered :
    agents[a].status = "active" =>
      /\ agents[a].inbound_topic_id # None
      /\ agents[a].outbound_topic_id # None
      /\ RegisterEnvelopes(topics, registry_topic_id, a) # {}

\* ---- C8 ------------------------------------------------------------------------
\* C8: Deleted is terminal. No step changes the status of an agent whose status
\* is deleted.
C8_DeletedIsTerminal ==
  [][\A a \in Registered :
       agents[a].status = "deleted" => agents'[a].status = "deleted"]_vars

\* ---- C9 ------------------------------------------------------------------------
\* C9: registration fails atomically when topic creation fails. A registration
\* step that leaves the new record without an inbound or without an outbound
\* topic appends no Register envelope for the account and does not make the
\* record active.
C9_RegistrationAtomic ==
  [][\A acct \in Accounts :
       ( /\ acct \notin Registered
         /\ acct \in DOMAIN agents'
         /\ \/ agents'[acct].inbound_topic_id = None
            \/ agents'[acct].outbound_topic_id = None )
       => /\ agents'[acct].status # "active"
          /\ RegisterEnvelopes(topics', registry_topic_id', acct) = {}]_vars

C11_TransactionCountsOnce ==
  \A a \in Registered, t \in AnyTopic, sch \in ScheduleIds,
     d \in MessageData, ok \in BOOLEAN :
    LET r == send_transaction_request(Cur, a, t, sch, d, ok)
        e == post_request_transaction(Cur, a, t, sch, d, ok)
    IN  /\ r.tx # None =>
             r.s.agents[a].messages_sent = agents[a].messages_sent + 1
        /\ r.tx = None =>
             r.s.agents[a].messages_sent = agents[a].messages_sent
        /\ e.ret.tx_id # None =>
             e.s.agents[a].messages_sent = agents[a].messages_sent + 1
        /\ e.ret.tx_id = None =>
             e.s.agents[a].messages_sent = agents[a].messages_sent

\* ---- C12 -----------------------------------------------------------------------
\* C12: a connection request addressed to a topic id that is the inbound topic
\* of no registered agent (an id no topic has included) fails and leaves every
\* agent record unchanged; the requester's messages_sent and last_activity are
\* not updated.
C12_UnknownTargetFails ==
  \A a \in Registered, t \in AnyTopic \ InboundTopics, ok \in BOOLEAN :
    LET e == post_request_connection(Cur, a, t, ok)
    IN  /\ e.ret.tx_id = None
        /\ e.s.agents = agents

\* ---- C15 -----------------------------------------------------------------------
\* C15: connection ids are fresh and monotonic. Of any two connection topics
\* created on the registry, the later one carries a strictly larger
\* connection id than the earlier one (so no two carry the same id).
ConnectionIdOf(topic) ==
  CHOOSE c \in ConnectionIds : ToString(c) = topic.memo[6]

C15_ConnectionIdsMonotonic ==
  \A t1 \in ConnectionTopics, t2 \in ConnectionTopics :
    t1 < t2 => ConnectionIdOf(topics[t1]) < ConnectionIdOf(topics[t2])

\* ---- C16 -----------------------------------------------------------------------
\* C16: a capacity failure is confined to the agent that is full. When b is at
\* max_connections and a is not, a connection creation for a and b fails the
\* notification of b only: b's counters are untouched, a's notification is
\* appended and counted, and messages_sent of the requester is kept.
C16_CapacityFailureConfined ==
  \A a \in Registered, b \in Registered, c \in ConnectionIds :
    ( /\ a # b
      /\ agents[a].inbound_topic_id # None
      /\ agents[b].inbound_topic_id # None
      /\ agents[a].active_connections < agents[a].max_connections
      /\ agents[b].active_connections = agents[b].max_connections )
    => LET h == create_connection_topic(Cur, a, b, c, TRUE, TRUE, TRUE)
       IN  /\ h.notified[1] # None
           /\ h.s.agents[a].active_connections = agents[a].active_connections + 1
           /\ h.s.agents[a].messages_received = agents[a].messages_received + 1
           /\ h.s.agents[a].messages_sent = agents[a].messages_sent
           /\ h.s.agents[b].messages_sent = agents[b].messages_sent
           /\ h.notified[2] = None
           /\ h.s.agents[b].active_connections = agents[b].active_connections
           /\ h.s.agents[b].messages_received = agents[b].messages_received

\* ---- C18 -----------------------------------------------------------------------
\* C18: a failed connection_created notification leaves the addressed agent's
\* record unchanged. If the append to the inbound topic of the addressed agent
\* fails, its messages_received, active_connections and last_activity keep
\* their values, the peer's record and every topic are unchanged; the same
\* holds for a notification that fails inside create_connection_topic.
C18_FailedNotificationFrame ==
  /\ \A to \in Registered, from \in Registered, ct \in AnyTopic,
        c \in ConnectionIds, ok \in BOOLEAN :
       LET r == notify_connection_created(Cur, to, from, ct, c, ok)
       IN  /\ (r.tx = None) <=>
                 ~(ok /\ agents[to].inbound_topic_id \in 1..Len(topics))
           /\ r.tx = None =>
                /\ r.s.agents[to].messages_received = agents[to].messages_received
                /\ r.s.agents[to].active_connections = agents[to].active_connections
                /\ r.s.agents[to].last_activity = agents[to].last_activity
                /\ r.s.agents = agents
                /\ r.s.topics = topics
  /\ \A a \in Registered, b \in Registered, c \in ConnectionIds,
        okA \in BOOLEAN, okB \in BOOLEAN :
       a # b =>
         LET h == create_connection_topic(Cur, a, b, c, TRUE, okA, okB)
         IN  /\ h.notified[1] = None => h.s.agents[a] = agents[a]
             /\ h.notified[2] = None => h.s.agents[b] = agents[b]

\* A state after a connection creation whose notification of the first agent
\* failed: the connection topic exists, the agent's inbound topic exists and
\* holds no connection_created envelope, and the agent counts nothing.
C18_Witness ==
  \E a \in Registered, t \in ConnectionTopics :
    /\ agents[a].inbound_topic_id # None
    /\ topics[t].memo[5] = TopicStr(agents[a].inbound_topic_id)
    /\ Envelopes(agents[a].inbound_topic_id) = <<>>
    /\ agents[a].active_connections = 0
    /\ agents[a].messages_received = 0

\* ---- C19 -----------------------------------------------------------------------
\* C19: deregistration sets status deleted exactly when the delete envelope was
\* appended. delete_agent appends one delete envelope carrying the given uid
\* to the registry topic and sets the agent's status to deleted; if the
\* registry topic is not initialized or the append fails it returns no
\* transaction id, appends nothing and leaves every agent record unchanged.
C19_DeleteAgent ==
  \A a \in Registered, uid \in Uids, ok \in BOOLEAN :
    LET r == delete_agent(Cur, a, uid, ok)
    IN  /\ (r.tx # None) <=> (ok /\ registry_topic_id # None)
        /\ r.tx # None =>
             /\ r.s.agents[a] = [agents[a] EXCEPT !.status = "deleted"]
             /\ r.s.topics =
                  [topics EXCEPT ![registry_topic_id].msgs =
                     Append(@, [p |-> "hcs-10", op |-> "delete", uid |-> uid])]
             /\ \A x \in Registered \ {a} : r.s.agents[x] = agents[x]
        /\ r.tx = None =>
             /\ r.s.agents = agents
             /\ r.s.topics = topics

\* A state right after a successful delete_agent: the agent is deleted and
\* the last envelope of the registry topic is the delete envelope.
C19_Witness ==
  /\ Len(RegistryLog) > 0
  /\ RegistryLog[Len(RegistryLog)].op = "delete"
  /\ \E a \in Registered : agents[a].status = "deleted"

\* ---- C20 -----------------------------------------------------------------------
\* C20: the core never retries an append. Each invocation of send_message,
\* send_transaction_request, send_connection_request, register_agent or
\* delete_agent makes at most one submit attempt, and when that attempt fails
\* the invocation returns no transaction id and no envelope is appended.
C20_NoSilentRetry ==
  \A a \in Registered, ok \in BOOLEAN :
    /\ \A t \in AnyTopic, d \in MessageData :
         LET r == send_message(Cur, a, t, d, ok)
         IN  /\ r.s.attempts <= 1
             /\ ~ok => (r.tx = None /\ r.s.topics = topics)
    /\ \A t \in AnyTopic, d \in MessageData, sch \in ScheduleIds :
         LET r == send_transaction_request(Cur, a, t, sch, d, ok)
         IN  /\ r.s.attempts <= 1
             /\ ~ok => (r.tx = None /\ r.s.topics = topics)
    /\ \A t \in AnyTopic :
         LET r == send_connection_request(Cur, a, t, ok)
         IN  /\ r.s.attempts <= 1
             /\ ~ok => (r.tx = None /\ r.s.topics = topics)
    /\ LET r == register_agent(Cur, a, TRUE, ok)
       IN  /\ r.s.attempts <= 1
           /\ ~ok => (r.tx = None
                      /\ RegisterEnvelopes(r.s.topics, r.s.reg, a)
                           = RegisterEnvelopes(topics, registry_topic_id, a))
    /\ \A uid \in Uids :
         LET r == delete_agent(Cur, a, uid, ok)
         IN  /\ r.s.attempts <= 1
             /\ ~ok => (r.tx = None /\ r.s.topics = topics)

\* A state after a registration whose only submit failed: the registry topic
\* was there from the start, the record stayed inactive without a
\* registration transaction, and no register envelope of the account exists.
C20_Witness ==
  \E a \in Registered :
    /\ configured # None
    /\ agents[a].status = "inactive"
    /\ agents[a].registration_tx_id = None
    /\ RegisterEnvelopes(topics, registry_topic_id, a) = {}

\* ---- C13 -----------------------------------------------------------------------
\* C13: counter updates are serialized per record. When send calls of the same
\* agent are processed concurrently, each on its own loaded copy of the
\* record, no counter update is lost: the stored messages_sent of every agent
\* counts every envelope the agent has appended by a successful send (two
\* concurrent successful sends raise it by exactly 2), and a send of one agent
\* leaves the counter of every other agent as it was.
C13_NoLostCounterUpdate ==
  \A a \in Registered : agents[a].messages_sent = SentEnvelopes(a)

\* ---- C14 -----------------------------------------------------------------------
\* C14: two registration calls for the same account that both passed the
\* existence check before either inserted its record end with one record for
\* the account and at most one inbound and one outbound topic created for it,
\* and both calls answer with success and the same topic ids.
InboundTopicsOf(acct) ==
  {t \in 1..Len(topics) : topics[t].memo = <<"hcs-10", "0", ToString(DefaultTtl), "0", acct>>}

OutboundTopics ==
  {t \in 1..Len(topics) : topics[t].memo = <<"hcs-10", "0", ToString(DefaultTtl), "1">>}

C14_InterleavedRegistration ==
  \A s1 \in Slots, s2 \in Slots :
    ( /\ s1 # s2
      /\ requests[s1].pc = "done" /\ requests[s1].checked
      /\ requests[s2].pc = "done" /\ requests[s2].checked
      /\ requests[s1].acct = requests[s2].acct )
    => /\ requests[s1].acct \in Registered
       /\ Cardinality(InboundTopicsOf(requests[s1].acct)) <= 1
       /\ Cardinality(OutboundTopics) <= Cardinality(Registered)
       /\ requests[s1].ret.http = 200
       /\ requests[s2].ret.http = 200
       /\ requests[s1].ret.inbound_topic_id = requests[s2].ret.inbound_topic_id
       /\ requests[s1].ret.outbound_topic_id = requests[s2].ret.outbound_topic_id

\* ---- C17 -----------------------------------------------------------------------
\* C17: messages_sent, messages_received and active_connections of every agent
\* are non-negative and never decrease: no step lowers any of them, no record
\* and no connection topic disappears (no connection is ever closed).
C17_CountersMonotonic ==
  [][\A a \in Registered :
       /\ a \in DOMAIN agents'
       /\ agents[a].messages_sent >= 0
       /\ agents[a].messages_received >= 0
       /\ agents[a].active_connections >= 0
       /\ agents'[a].messages_sent >= agents[a].messages_sent
       /\ agents'[a].messages_received >= agents[a].messages_received
       /\ agents'[a].active_connections >= agents[a].active_connections
       /\ \A t \in ConnectionTopics :
            t \in 1..Len(topics') /\ topics'[t].memo = topics[t].memo]_vars

\* ---- C21 -----------------------------------------------------------------------
\* C21: a transport failure is distinguishable from a protocol rejection. For
\* every operation that appends to a topic, the result returned when the
\* service call raises (timeout, unreachable) differs from the result returned
\* when the service answers with a non-success status.
C21_TransportFailureDistinct ==
  \A a \in Registered, t \in 1..Len(topics) :
    /\ \A d \in MessageData :
         send_message(Cur, a, t, d, Succeeds("unavailable")).tx
           # send_message(Cur, a, t, d, Succeeds("rejected")).tx
    /\ \A d \in MessageData, sch \in ScheduleIds :
         send_transaction_request(Cur, a, t, sch, d, Succeeds("unavailable")).tx
           # send_transaction_request(Cur, a, t, sch, d, Succeeds("rejected")).tx
    /\ send_connection_request(Cur, a, t, Succeeds("unavailable")).tx
         # send_connection_request(Cur, a, t, Succeeds("rejected")).tx
    /\ register_agent(Cur, a, TRUE, Succeeds("unavailable")).tx
         # register_agent(Cur, a, TRUE, Succeeds("rejected")).tx

\* ---- C22 -----------------------------------------------------------------------
\* C22: a session goes Requested before Created. A connection_created envelope
\* for a pair of agents exists only if a connection_request envelope of one of
\* them was appended to the other's inbound topic before; creating a
\* connection for a pair (a, b) with no request from a on b's inbound topic is
\* rejected: no topic id is returned, nothing is appended and no record
\* changes.
HasRequestFrom(a, b) ==
  \E i \in 1..Len(Envelopes(agents[b].inbound_topic_id)) :
    LET e == Envelopes(agents[b].inbound_topic_id)[i]
    IN  e.op = "connection_request" /\ e.operator_id[1] = a

HasCreatedNaming(a, b) ==
  \E i \in 1..Len(Envelopes(agents[a].inbound_topic_id)) :
    LET e == Envelopes(agents[a].inbound_topic_id)[i]
    IN  e.op = "connection_created" /\ e.connected_account_id = b

C22_RequestedBeforeCreated ==
  \A a \in Registered, b \in Registered :
    a # b =>
      /\ HasCreatedNaming(a, b) => (HasRequestFrom(a, b) \/ HasRequestFrom(b, a))
      /\ ~HasRequestFrom(a, b) =>
           \A c \in ConnectionIds :
             LET h == create_connection_topic(Cur, a, b, c, TRUE, TRUE, TRUE)
             IN  /\ h.topic = None
                 /\ h.s.topics = topics
                 /\ h.s.agents = agents

\* ---- C23 -----------------------------------------------------------------------
\* C23: send_connection_request appends a connection_request envelope only for
\* a requester that has both an outbound and an inbound topic. A requester
\* missing either one gets no transaction id, nothing is appended and no
\* counter changes; hence every connection_request envelope on any topic has
\* an operator_id whose topic part is an inbound topic id, never None.
C23_RequesterHasBothTopics ==
  /\ \A a \in Registered, t \in AnyTopic, ok \in BOOLEAN :
       ( \/ agents[a].outbound_topic_id = None
         \/ agents[a].inbound_topic_id = None )
       => LET r == send_connection_request(Cur, a, t, ok)
          IN  /\ r.tx = None
              /\ r.s.topics = topics
              /\ r.s.agents = agents
  /\ \A t \in 1..Len(topics) :
       \A i \in 1..Len(topics[t].msgs) :
         topics[t].msgs[i].op = "connection_request" =>
           /\ topics[t].msgs[i].operator_id[1] \in Registered
           /\ topics[t].msgs[i].operator_id[2] # None
           /\ topics[t].msgs[i].operator_id[2]
                = agents[topics[t].msgs[i].operator_id[1]].inbound_topic_id

\* ---- C24 -----------------------------------------------------------------------
\* C24: a successful send_connection_request appends exactly one
\* connection_request envelope, with the requester's operator_id, to the given
\* topic and increases messages_sent of the requester by exactly 1. Nothing
\* else changes: no other topic, no other counter of the requester, no record
\* of another agent (the target's messages_received and active_connections
\* included).
C24_ConnectionRequestFrame ==
  \A a \in Registered, t \in AnyTopic, ok \in BOOLEAN :
    LET r == send_connection_request(Cur, a, t, ok)
    IN  r.tx # None =>
          /\ r.s.topics =
               [topics EXCEPT ![t].msgs =
                  Append(@, [p |-> "hcs-10", op |-> "connection_request",
                             operator_id |-> <<a, agents[a].inbound_topic_id>>])]
          /\ r.s.agents[a] =
               [agents[a] EXCEPT !.messages_sent = @ + 1,
                                 !.last_activity = r.s.now]
          /\ r.s.agents[a].active_connections = agents[a].active_connections
          /\ r.s.agents[a].messages_received = agents[a].messages_received
          /\ \A x \in Registered \ {a} : r.s.agents[x] = agents[x]
          /\ r.s.reg = registry_topic_id

\* A state right after a successful connection request of a to b: the request
\* is the last envelope of b's inbound topic, a counts one message sent, and
\* neither agent counts a received message or a connection.
C24_Witness ==
  \E a \in Registered, b \in Registered :
    /\ a # b
    /\ Len(Envelopes(agents[b].inbound_topic_id)) = 1
    /\ Envelopes(agents[b].inbound_topic_id)[1].op = "connection_request"
    /\ Envelopes(agents[b].inbound_topic_id)[1].operator_id[1] = a
    /\ agents[a].messages_sent = 1
    /\ agents[a].last_activity = now
    /\ agents[a].messages_received = 0
    /\ agents[a].active_connections = 0
    /\ agents[b].messages_received = 0
    /\ agents[b].active_connections = 0

\* ---- C25 -----------------------------------------------------------------------
\* C25: creating a connection topic for agents a and b issues exactly two
\* connection_created notifications: one appended to a's inbound topic naming
\* b and one appended to b's inbound topic naming a, both carrying the id of
\* the connection topic just created. When the creation of the connection
\* topic failed, no notification is issued and nothing is appended.
CreatedEnvelope(from_agent, topic, connection_id) ==
  [p |-> "hcs-10", op |-> "connection_created",
   connection_topic_id |-> topic,
   connected_account_id |-> from_agent.account_id,
   operator_id |-> <<from_agent.account_id, from_agent.inbound_topic_id>>,
   connection_id |-> connection_id]

C25_TwoNotifications ==
  \A a \in Registered, b \in Registered, c \in ConnectionIds,
     ok \in BOOLEAN, okA \in BOOLEAN, okB \in BOOLEAN :
    a # b =>
      LET h  == create_connection_topic(Cur, a, b, c, ok, okA, okB)
          ia == agents[a].inbound_topic_id
          ib == agents[b].inbound_topic_id
      IN  IF h.topic = None
          THEN /\ ~ok
               /\ h.s.attempts = 0
               /\ h.s.topics = topics
               /\ h.s.agents = agents
          ELSE /\ h.topic = Len(topics) + 1
               /\ h.s.attempts = 2
               /\ Len(h.s.topics) = Len(topics) + 1
               /\ h.s.topics[h.topic].msgs = <<>>
               /\ h.notified[1] # None =>
                    h.s.topics[ia].msgs =
                      Append(topics[ia].msgs, CreatedEnvelope(agents[b], h.topic, c))
               /\ h.notified[2] # None =>
                    h.s.topics[ib].msgs =
                      Append(topics[ib].msgs, CreatedEnvelope(agents[a], h.topic, c))
               /\ \A t \in 1..Len(topics) :
                    (t \notin {ia, ib} \/ (t = ia /\ h.notified[1] = None)
                                       \/ (t = ib /\ h.notified[2] = None))
                    => h.s.topics[t] = topics[t]

\* A state right after a connection creation with both notifications
\* appended: the last topic is an empty connection topic, and the last
\* envelope of each agent's inbound topic names the other agent and that topic.
C25_Witness ==
  \E a \in Registered, b \in Registered :
    /\ a # b
    /\ Len(topics) \in ConnectionTopics
    /\ topics[Len(topics)].msgs = <<>>
    /\ Len(Envelopes(agents[a].inbound_topic_id)) > 0
    /\ Len(Envelopes(agents[b].inbound_topic_id)) > 0
    /\ LET la == Envelopes(agents[a].inbound_topic_id)
           lb == Envelopes(agents[b].inbound_topic_id)
       IN  /\ la[Len(la)].op = "connection_created"
           /\ la[Len(la)].connected_account_id = b
           /\ la[Len(la)].connection_topic_id = Len(topics)
           /\ lb[Len(lb)].op = "connection_created"
           /\ lb[Len(lb)].connected_account_id = a
           /\ lb[Len(lb)].connection_topic_id = Len(topics)

\* ---- C26 -----------------------------------------------------------------------
\* C26: every envelope on every topic carries the protocol marker "hcs-10" in p
\* and one op value of register, delete, connection_request,
\* connection_created, message, transaction; and the envelope an operation
\* appends carries the op of that operation.
EnvelopeOps ==
  {"register", "delete", "connection_request", "connection_created",
   "message", "transaction"}

AppendedTo(s, t) == s.topics[t].msgs[Len(s.topics[t].msgs)]

C26_EnvelopeOperations ==
  /\ \A t \in 1..Len(topics) :
       \A i \in 1..Len(topics[t].msgs) :
         /\ topics[t].msgs[i].p = "hcs-10"
         /\ topics[t].msgs[i].op \in EnvelopeOps
  /\ \A a \in Registered :
       /\ \A t \in 1..Len(topics), d \in MessageData, sch \in ScheduleIds :
            /\ AppendedTo(send_message(Cur, a, t, d, TRUE).s, t).op = "message"
            /\ AppendedTo(send_message(Cur, a, t, d, TRUE).s, t).p = "hcs-10"
            /\ AppendedTo(send_transaction_request(Cur, a, t, sch, d, TRUE).s, t).op
                 = "transaction"
            /\ AppendedTo(send_transaction_request(Cur, a, t, sch, d, TRUE).s, t).p
                 = "hcs-10"
            /\ agents[a].outbound_topic_id # None =>
                 /\ AppendedTo(send_connection_request(Cur, a, t, TRUE).s, t).op
                      = "connection_request"
                 /\ AppendedTo(send_connection_request(Cur, a, t, TRUE).s, t).p
                      = "hcs-10"
       /\ LET r == register_agent(Cur, a, TRUE, TRUE)
          IN  /\ AppendedTo(r.s, r.s.reg).op = "register"
              /\ AppendedTo(r.s, r.s.reg).p = "hcs-10"
       /\ registry_topic_id # None =>
            \A uid \in Uids :
              /\ AppendedTo(delete_agent(Cur, a, uid, TRUE).s, registry_topic_id).op
                   = "delete"
              /\ AppendedTo(delete_agent(Cur, a, uid, TRUE).s, registry_topic_id).p
                   = "hcs-10"
       /\ agents[a].inbound_topic_id # None =>
            \A b \in Registered, c \in ConnectionIds :
              LET n == notify_connection_created(Cur, a, b, None, c, TRUE)
              IN  /\ AppendedTo(n.s, agents[a].inbound_topic_id).op
                       = "connection_created"
                  /\ AppendedTo(n.s, agents[a].inbound_topic_id).p = "hcs-10"

OpsOnTopics ==
  {topics[t].msgs[i].op : <<t, i>> \in
     {x \in (1..Len(topics)) \X (1..3) : x[2] <= Len(topics[x[1]].msgs)}}

\* A state whose topics hold envelopes of four operations.
C26_Witness ==
  {"register", "connection_created", "connection_request", "message"}
    \subseteq OpsOnTopics

\* ---- C27 -----------------------------------------------------------------------
\* C27 (as claimed): the second colon-separated field of the memo distinguishes
\* the topic roles: the memos generated for a registry topic, an inbound
\* topic, an outbound topic and a connection topic carry four pairwise
\* different values in it.
RoleMemos(agent, connection_id) ==
  << RegistryMemo,
     get_topic_memo(agent, "inbound"),
     get_topic_memo(agent, "outbound"),
     ConnectionMemo(agent, connection_id) >>

C27_TopicTypeCodeDistinguishes ==
  \A a \in Registered, c \in ConnectionIds :
    \A i \in 1..4, j \in 1..4 :
      i # j => RoleMemos(agents[a], c)[i][2] # RoleMemos(agents[a], c)[j][2]

\* C27 (amended): the fourth colon-separated field of the memo distinguishes
\* the topic roles: the memos generated for a registry topic, an inbound
\* topic, an outbound topic and a connection topic carry four pairwise
\* different values in it ("3", "0", "1", "2"), and every topic that exists
\* carries the value of its role.
C27_SubTypeCodeDistinguishes ==
  /\ \A a \in Registered, c \in ConnectionIds :
       /\ \A i \in 1..4, j \in 1..4 :
            i # j => RoleMemos(agents[a], c)[i][4] # RoleMemos(agents[a], c)[j][4]
       /\ get_topic_memo(agents[a], "registry")[4] = RegistryMemo[4]
       /\ agents[a].inbound_topic_id # None =>
            topics[agents[a].inbound_topic_id].memo[4] = "0"
       /\ agents[a].outbound_topic_id # None =>
            topics[agents[a].outbound_topic_id].memo[4] = "1"
  /\ registry_topic_id # None => topics[registry_topic_id].memo[4] = "3"
  /\ \A t \in ConnectionTopics : topics[t].memo[4] = "2"

\* A state in which topics of the four roles exist.
C27_Witness ==
  /\ registry_topic_id # None
  /\ ConnectionTopics # {}
  /\ \E a \in Registered :
       /\ agents[a].inbound_topic_id # None
       /\ agents[a].outbound_topic_id # None

\* ---- C29 -----------------------------------------------------------------------
\* C29: create_connection_topic reports a connection topic id only for an
\* established session. Whenever it returns a topic id, both connection_created
\* notifications were appended and active_connections of both participants
\* was incremented.
C29_TopicIdOnlyWhenEstablished ==
  \A a \in Registered, b \in Registered, c \in ConnectionIds,
     ok \in BOOLEAN, okA \in BOOLEAN, okB \in BOOLEAN :
    a # b =>
      LET h == create_connection_topic(Cur, a, b, c, ok, okA, okB)
      IN  h.topic # None =>
            /\ h.notified[1] # None
            /\ h.notified[2] # None
            /\ h.s.agents[a].active_connections = agents[a].active_connections + 1
            /\ h.s.agents[b].active_connections = agents[b].active_connections + 1

\* ---- C30 -----------------------------------------------------------------------
\* C30: every agent has active_connections = messages_received in every
\* reachable state (both start at 0 and change only, and together, on a
\* successful connection_created notification); a connection_request, message
\* or transaction envelope appended to any topic raises messages_received of
\* no agent.
C30_ActiveEqualsReceived ==
  /\ \A a \in Registered :
       agents[a].active_connections = agents[a].messages_received
  /\ \A a \in Registered, t \in AnyTopic, ok \in BOOLEAN, x \in Registered :
       /\ send_connection_request(Cur, a, t, ok).s.agents[x].messages_received
            = agents[x].messages_received
       /\ \A d \in MessageData :
            send_message(Cur, a, t, d, ok).s.agents[x].messages_received
              = agents[x].messages_received
       /\ \A d \in MessageData, sch \in ScheduleIds :
            send_transaction_request(Cur, a, t, sch, d, ok).s.agents[x].messages_received
              = agents[x].messages_received

\* A state in which an agent has received a connection request and one
\* connection_created notification, and counts one connection and one message.
C30_Witness ==
  \E a \in Registered, b \in Registered :
    /\ a # b
    /\ HasRequestFrom(a, b)
    /\ HasCreatedNaming(b, a)
    /\ agents[b].active_connections = 1
    /\ agents[b].messages_received = 1

\* ---- C28 -----------------------------------------------------------------------
\* C28: when initialize_registry and register_agent calls on one registry
\* interleave while registry_topic_id is unset, at most one registry topic is
\* created, and every register envelope of those calls is on that single
\* registry topic, the one registry_topic_id names.
C28_SingleRegistryTopic ==
  /\ Cardinality(RegistryTopics(topics)) <= 1
  /\ \A t \in 1..Len(topics) :
       \A i \in 1..Len(topics[t].msgs) :
         topics[t].msgs[i].op = "register" => t = registry_topic_id

====
